---- MODULE Spec2Model ----
(***************************************************************************)
(* Model of start-server.py: main() and CORSHTTPRequestHandler, together   *)
(* with the parts of http.server / socketserver the script inherits and    *)
(* of the operating system (port ownership, TIME_WAIT, errno numbering)    *)
(* that decide its observable behaviour.                                   *)
(***************************************************************************)
EXTENDS Integers, Sequences, FiniteSets, TLC

\* ------------------------------------------------------------------ bounds
\* number of client connections opened during one run of the server
MaxConn == 2

\* --------------------------------------------------------------- constants
\* port = 8080
port == 8080
\* the literal compared with e.errno in main()'s OSError clause
ERRNO_IN_USE_LITERAL == 48
\* errno.EADDRINUSE as the platform numbers it
EADDRINUSE_DARWIN == 48
EADDRINUSE_LINUX == 98
\* errno.EACCES, an "other" bind failure
EACCES == 13
\* exit code of an interpreter that ends on an uncaught exception
EXIT_UNCAUGHT == 1
\* exit code of an interpreter whose main() returned
EXIT_RETURNED == 0
\* the process has not exited yet
RUNNING == -1

Platforms == {"darwin", "linux"}

EADDRINUSE(plat) == IF plat = "darwin" THEN EADDRINUSE_DARWIN ELSE EADDRINUSE_LINUX

Conns == 1..MaxConn

\* ------------------------------------------------------------- file system
ScriptDir == "script_dir"
LaunchDir == "launch_dir"

\* a request path: base name, extension, trailing slash
Path(b, e, s) == [base |-> b, ext |-> e, slash |-> s]

Paths ==
    { Path("a", "html", FALSE), Path("tex", "png", FALSE),
      Path("notes", "xyz", FALSE), Path("missing", "html", FALSE),
      Path("secret", "png", FALSE), Path("test", "", FALSE),
      Path("test", "", TRUE) }

NoEntry == [kind |-> "none", bytes |-> <<>>, readable |-> FALSE]

\* os.path.dirname(os.path.abspath(__file__)), the argument of os.chdir
ChdirTargetLaunch == LaunchDir

ChdirTarget == ScriptDir

\* the tree below the script's directory: three readable regular files, one
\* unreadable file and one directory without an index page
ScriptTree(b, e) ==
    CASE b = "a" /\ e = "html"    -> [kind |-> "file", bytes |-> <<1, 2>>, readable |-> TRUE]
      [] b = "tex" /\ e = "png"   -> [kind |-> "file", bytes |-> <<3>>, readable |-> TRUE]
      [] b = "notes" /\ e = "xyz" -> [kind |-> "file", bytes |-> <<>>, readable |-> TRUE]
      [] b = "secret" /\ e = "png" -> [kind |-> "file", bytes |-> <<4>>, readable |-> FALSE]
      [] b = "test" /\ e = ""     -> [kind |-> "dir", bytes |-> <<>>, readable |-> TRUE]
      [] OTHER -> NoEntry

\* the launch directory holds one file, whose name also exists in the tree
LaunchTree(b, e) ==
    IF b = "a" /\ e = "html"
    THEN [kind |-> "file", bytes |-> <<9>>, readable |-> TRUE]
    ELSE NoEntry

Names == { <<p.base, p.ext>> : p \in Paths }

InitialFs ==
    [d \in {ScriptDir, LaunchDir} |->
        [n \in Names |-> IF d = ScriptDir THEN ScriptTree(n[1], n[2])
                                          ELSE LaunchTree(n[1], n[2])]]

\* SimpleHTTPRequestHandler.translate_path: the request path below os.getcwd()
translate_path(dir, files, p) == files[dir][<<p.base, p.ext>>]

\* SimpleHTTPRequestHandler.guess_type: extensions_map lookup on the extension
guess_type(p) ==
    CASE p.ext = "html" -> "text/html"
      [] p.ext = "png"  -> "image/png"
      [] OTHER          -> "application/octet-stream"

\* ---------------------------------------------------------------- requests
Methods == {"GET", "HEAD", "OPTIONS", "POST", "DELETE"}

\* the request line as the words parse_request splits it into, and whether
\* an If-Modified-Since header not older than the file's mtime is present
Request(w, c) == [words |-> w, ims |-> c]

Http1Requests ==
    { Request(<<m, p, v>>, c) :
        m \in Methods, p \in Paths, v \in {"HTTP/1.1"}, c \in BOOLEAN }

SimpleRequests ==
    { Request(<<m, p>>, FALSE) : m \in {"GET", "OPTIONS"}, p \in {Path("a", "html", FALSE), Path("missing", "html", FALSE)} }

BadRequests ==
    { Request(<<"BAD">>, FALSE),
      Request(<<"GET", Path("a", "html", FALSE), "HTTP/2.0">>, FALSE),
      Request(<<"GET", Path("a", "html", FALSE), "JUNK">>, FALSE) }

Requests == Http1Requests \cup SimpleRequests \cup BadRequests

\* --------------------------------------------------------------- responses
CORSHeaders ==
    << <<"Access-Control-Allow-Origin", "*">>,
       <<"Access-Control-Allow-Methods", "GET, POST, OPTIONS">>,
       <<"Access-Control-Allow-Headers", "Content-Type">> >>

NoStatus == 0

\* the handler object while it builds a response: request_version, the
\* status line written, the header lines written, the body written
Body(k, d) == [kind |-> k, data |-> d]

EmptyBody == Body("empty", <<>>)

NewHandler(version) ==
    [version |-> version, status |-> NoStatus, headers |-> <<>>, body |-> EmptyBody]

\* BaseHTTPRequestHandler.send_header: nothing is buffered for HTTP/0.9
send_header(h, k, v) ==
    IF h.version # "HTTP/0.9"
    THEN [h EXCEPT !.headers = Append(@, <<k, v>>)]
    ELSE h

\* BaseHTTPRequestHandler.send_response: status line (not for HTTP/0.9),
\* then the Server and Date headers
send_response(h, code) ==
    LET s == IF h.version # "HTTP/0.9" THEN [h EXCEPT !.status = code] ELSE h
    IN send_header(send_header(s, "Server", "SimpleHTTP"), "Date", "now")

\* BaseHTTPRequestHandler.end_headers: flushes the header buffer
base_end_headers(h) == h

end_headersNoAllowHeaders(h) ==
    base_end_headers(
        send_header(
            send_header(h, CORSHeaders[1][1], CORSHeaders[1][2]),
            CORSHeaders[2][1], CORSHeaders[2][2]))

\* CORSHTTPRequestHandler.end_headers
end_headers(h) ==
    base_end_headers(
        send_header(
            send_header(
                send_header(h, "Access-Control-Allow-Origin", "*"),
                "Access-Control-Allow-Methods", "GET, POST, OPTIONS"),
            "Access-Control-Allow-Headers", "Content-Type"))

ErrorPage(code) == Body("error page", <<code>>)

\* BaseHTTPRequestHandler.send_error: the error page is the body unless the
\* command is HEAD
send_error(h, command, code) ==
    LET r == end_headers(
                 send_header(
                     send_header(
                         send_header(send_response(h, code), "Connection", "close"),
                         "Content-Type", "text/html;charset=utf-8"),
                     "Content-Length", "error page"))
    IN IF command # "HEAD" THEN [r EXCEPT !.body = ErrorPage(code)] ELSE r

\* ------------------------------------------------------- request handling
VersionWellFormed(v) == v \in {"HTTP/1.0", "HTTP/1.1", "HTTP/2.0"}

VersionTooNew(v) == v = "HTTP/2.0"

\* BaseHTTPRequestHandler.parse_request on the words of the request line:
\* the command, path and request_version it settles on, or the error
\* response it has sent. request_version is still the default HTTP/0.9
\* while a request-line error is answered.
parse_request(words) ==
    LET h0   == NewHandler("HTTP/0.9")
        fail(code) == [ok |-> FALSE, command |-> "", path |-> Path("", "", FALSE),
                       h |-> send_error(h0, "", code)]
    IN  IF Len(words) >= 3 /\ ~VersionWellFormed(words[Len(words)]) THEN fail(400)
        ELSE IF Len(words) >= 3 /\ VersionTooNew(words[Len(words)]) THEN fail(505)
        ELSE IF ~(2 <= Len(words) /\ Len(words) <= 3) THEN fail(400)
        ELSE IF Len(words) = 2 /\ words[1] # "GET" THEN fail(400)
        ELSE [ok |-> TRUE, command |-> words[1], path |-> words[2],
              h |-> NewHandler(IF Len(words) = 3 THEN words[3] ELSE "HTTP/0.9")]

Listing == Body("directory listing", <<>>)

\* SimpleHTTPRequestHandler.send_head (with list_directory for a directory
\* that has no index page): the headers sent and the file object returned
send_head(h, command, p, ims, dir, files) ==
    LET e == translate_path(dir, files, p)
    IN  IF e.kind = "dir" /\ ~p.slash
        THEN [h |-> end_headers(
                        send_header(send_header(send_response(h, 301),
                                                "Location", "path/"),
                                    "Content-Length", "0")),
              f |-> EmptyBody, hasFile |-> FALSE]
        ELSE IF e.kind = "dir"
        THEN [h |-> end_headers(
                        send_header(send_header(send_response(h, 200),
                                                "Content-type", "text/html; charset=utf-8"),
                                    "Content-Length", "size")),
              f |-> Listing, hasFile |-> TRUE]
        ELSE IF p.slash \/ e.kind = "none" \/ ~e.readable
        THEN [h |-> send_error(h, command, 404), f |-> EmptyBody, hasFile |-> FALSE]
        ELSE IF ims
        THEN [h |-> end_headers(send_response(h, 304)), f |-> EmptyBody, hasFile |-> FALSE]
        ELSE [h |-> end_headers(
                        send_header(
                            send_header(send_header(send_response(h, 200),
                                                    "Content-type", guess_type(p)),
                                        "Content-Length", "size"),
                            "Last-Modified", "mtime")),
              f |-> Body("file", e.bytes), hasFile |-> TRUE]

do_GETNoCopy(h, p, ims, dir, files) == send_head(h, "GET", p, ims, dir, files).h

\* SimpleHTTPRequestHandler.do_GET: send_head, then copy the file to the client
do_GET(h, p, ims, dir, files) ==
    LET r == send_head(h, "GET", p, ims, dir, files)
    IN  IF r.hasFile THEN [r.h EXCEPT !.body = r.f] ELSE r.h

\* SimpleHTTPRequestHandler.do_HEAD: send_head alone
do_HEAD(h, p, ims, dir, files) == send_head(h, "HEAD", p, ims, dir, files).h

do_OPTIONSAsHead(h, p, ims, dir, files) == do_HEAD(h, p, ims, dir, files)

\* CORSHTTPRequestHandler.do_OPTIONS
do_OPTIONS(h, p, ims, dir, files) == end_headers(send_response(h, 200))

\* BaseHTTPRequestHandler.handle_one_request: parse, then dispatch on
\* 'do_' + command; a command without a method is answered 501
handle_one_request(req, dir, files) ==
    LET pr == parse_request(req.words)
    IN  IF ~pr.ok THEN pr.h
        ELSE CASE pr.command = "GET"     -> do_GET(pr.h, pr.path, req.ims, dir, files)
               [] pr.command = "HEAD"    -> do_HEAD(pr.h, pr.path, req.ims, dir, files)
               [] pr.command = "OPTIONS" -> do_OPTIONS(pr.h, pr.path, req.ims, dir, files)
               [] OTHER                  -> send_error(pr.h, pr.command, 501)

\* ------------------------------------------------------------ the process
VARIABLES
    platform,       \* the operating system the script runs on
    pc,             \* main(): "chdir", "banner", "bind", "serving", "handling", "done"
    cwd,            \* the process's working directory
    chdirCount,     \* number of os.chdir calls that succeeded
    fs,             \* the files below each directory
    portHolder,     \* who owns a socket bound to the port: "none", "other", "self"
    timeWait,       \* a closed connection on the port lingers in TIME_WAIT
    out,            \* what the process has printed, line by line
    exitCode,       \* RUNNING, or the exit code of the process
    conn,           \* per client connection: "new", "backlog", "accepted", "closed"
    sent,           \* per client connection: the client has sent its request
    cur,            \* the connection the handler is working on (0: none)
    last,           \* the request handled most recently and its outcome
    failed,         \* some request got a not-found answer or raised in the handler
    interrupted,    \* the serve loop was left by a KeyboardInterrupt
    startupFailure, \* "none", "chdir" or "bind"
    bindErrno,      \* errno of the failed bind (0: none)
    boundOnce,      \* the listening socket has been bound
    successor       \* a new instance started after exit: "none", "bound", "failed"

vars == <<platform, pc, cwd, chdirCount, fs, portHolder, timeWait, out, exitCode,
          conn, sent, cur, last, failed, interrupted, startupFailure, bindErrno,
          boundOnce, successor>>

NoRequest == Request(<<>>, FALSE)

NoLast ==
    [n |-> 0, req |-> NoRequest, responded |-> FALSE, resp |-> NewHandler(""),
     exc |-> "none", afterFailure |-> FALSE]

Init ==
    /\ platform \in Platforms
    /\ pc = "chdir"
    /\ cwd = LaunchDir
    /\ chdirCount = 0
    /\ fs = InitialFs
    /\ portHolder \in {"none", "other"}
    /\ timeWait = FALSE
    /\ out = <<>>
    /\ exitCode = RUNNING
    /\ conn = [c \in Conns |-> "new"]
    /\ sent = [c \in Conns |-> FALSE]
    /\ cur = 0
    /\ last = NoLast
    /\ failed = FALSE
    /\ interrupted = FALSE
    /\ startupFailure = "none"
    /\ bindErrno = 0
    /\ boundOnce = FALSE
    /\ successor = "none"

Banner == <<"starting on port", "serving files from", "open url", "press ctrl+c">>

\* TCPServer.server_bind with allow_reuse_address = False: the errno of
\* socket.bind (0: bound). A listener on the port or a connection of the port
\* in TIME_WAIT makes the address in use; fault is any other failure.
server_bind(plat, holder, tw, fault) ==
    IF holder # "none" \/ tw THEN EADDRINUSE(plat) ELSE fault

\* main()'s except clauses and the end of the interpreter: what is printed
\* and the exit code, for an exception leaving the try block
main_except(o, exc, errno) ==
    CASE exc = "KeyboardInterrupt" ->
            [out |-> Append(o, "server stopped"), exit |-> EXIT_RETURNED]
      [] exc = "OSError" /\ errno = ERRNO_IN_USE_LITERAL ->
            [out |-> o \o <<"port is already in use", "try lsof kill">>,
             exit |-> EXIT_RETURNED]
      [] exc = "OSError" ->
            [out |-> Append(o, "server error"), exit |-> EXIT_RETURNED]
      [] OTHER ->
            [out |-> Append(o, "traceback"), exit |-> EXIT_UNCAUGHT]

\* os.chdir(os.path.dirname(os.path.abspath(__file__))); an OSError here is
\* outside the try block and ends the process with a traceback
main_chdir ==
    /\ pc = "chdir"
    /\ \E ok \in BOOLEAN :
        IF ok
        THEN /\ cwd' = ChdirTarget
             /\ chdirCount' = chdirCount + 1
             /\ pc' = "banner"
             /\ UNCHANGED <<out, exitCode, startupFailure>>
        ELSE /\ out' = Append(out, "traceback")
             /\ exitCode' = EXIT_UNCAUGHT
             /\ startupFailure' = "chdir"
             /\ pc' = "done"
             /\ UNCHANGED <<cwd, chdirCount>>
    /\ UNCHANGED <<platform, fs, portHolder, timeWait, conn, sent, cur, last, failed,
                   interrupted, bindErrno, boundOnce, successor>>

\* the four print calls before the try block
main_banner ==
    /\ pc = "banner"
    /\ out' = out \o Banner
    /\ pc' = "bind"
    /\ UNCHANGED <<platform, cwd, chdirCount, fs, portHolder, timeWait, exitCode, conn,
                   sent, cur, last, failed, interrupted, startupFailure, bindErrno,
                   boundOnce, successor>>

\* socketserver.TCPServer(("", port), CORSHTTPRequestHandler): bound and
\* listening, or the socket closed again and the OSError handled by main()
main_bind ==
    /\ pc = "bind"
    /\ \E fault \in {0, EACCES} :
        LET errno == server_bind(platform, portHolder, timeWait, fault)
            e     == main_except(out, "OSError", errno)
        IN  IF errno = 0
            THEN /\ portHolder' = "self"
                 /\ boundOnce' = TRUE
                 /\ pc' = "serving"
                 /\ UNCHANGED <<out, exitCode, startupFailure, bindErrno>>
            ELSE /\ out' = e.out
                 /\ exitCode' = e.exit
                 /\ startupFailure' = "bind"
                 /\ bindErrno' = errno
                 /\ pc' = "done"
                 /\ UNCHANGED <<portHolder, boundOnce>>
    /\ UNCHANGED <<platform, cwd, chdirCount, fs, timeWait, conn, sent, cur, last,
                   failed, interrupted, successor>>

\* ------------------------------------------------------------- serve loop
\* a client connects: the kernel completes the handshake and queues the
\* connection on the listening socket
client_connect(c) ==
    /\ portHolder = "self"
    /\ conn[c] = "new"
    /\ conn' = [conn EXCEPT ![c] = "backlog"]
    /\ UNCHANGED <<platform, pc, cwd, chdirCount, fs, portHolder, timeWait, out,
                   exitCode, sent, cur, last, failed, interrupted, startupFailure,
                   bindErrno, boundOnce, successor>>

\* a connected client sends its request
client_send(c) ==
    /\ conn[c] \in {"backlog", "accepted"}
    /\ ~sent[c]
    /\ sent' = [sent EXCEPT ![c] = TRUE]
    /\ UNCHANGED <<platform, pc, cwd, chdirCount, fs, portHolder, timeWait, out,
                   exitCode, conn, cur, last, failed, interrupted, startupFailure,
                   bindErrno, boundOnce, successor>>

CanAcceptThreaded(c) == pc \in {"serving", "handling"} /\ conn[c] = "backlog"

\* TCPServer is a plain BaseServer (no ThreadingMixIn): serve_forever comes
\* back to select/accept only after process_request has returned
CanAccept(c) == pc = "serving" /\ conn[c] = "backlog"

\* serve_forever -> _handle_request_noblock -> get_request: accept one
\* queued connection and construct the handler for it
get_request(c) ==
    /\ CanAccept(c)
    /\ conn' = [conn EXCEPT ![c] = "accepted"]
    /\ cur' = c
    /\ pc' = "handling"
    /\ UNCHANGED <<platform, cwd, chdirCount, fs, portHolder, timeWait, out, exitCode,
                   sent, last, failed, interrupted, startupFailure, bindErrno,
                   boundOnce, successor>>

IsFailure(resp) == resp.status = 404

\* finish_request -> handler.handle() -> handle_one_request, then
\* shutdown_request: the request is read, answered, and the connection closed
\* by the server, which leaves it in TIME_WAIT
handle_request ==
    /\ pc = "handling"
    /\ sent[cur]
    /\ \E req \in Requests :
        LET resp == handle_one_request(req, cwd, fs)
        IN  /\ last' = [n |-> last.n + 1, req |-> req, responded |-> TRUE,
                        resp |-> resp, exc |-> "none", afterFailure |-> failed]
            /\ failed' = (failed \/ IsFailure(resp))
    /\ conn' = [conn EXCEPT ![cur] = "closed"]
    /\ cur' = 0
    /\ timeWait' = TRUE
    /\ pc' = "serving"
    /\ UNCHANGED <<platform, cwd, chdirCount, fs, portHolder, out, exitCode, sent,
                   interrupted, startupFailure, bindErrno, boundOnce, successor>>

HandlerExceptions == {"ConnectionResetError", "ValueError", "KeyboardInterrupt"}

\* the class main()'s except clauses see
ExcClass(exc) == IF exc = "ConnectionResetError" THEN "OSError" ELSE exc

PropagatesAll(exc) == TRUE

\* _handle_request_noblock: "except Exception" calls handle_error and goes
\* on; anything else (KeyboardInterrupt) is re-raised out of serve_forever
Propagates(exc) == exc = "KeyboardInterrupt"

\* an exception leaves serve_forever: the with statement closes the
\* listening socket (server_close), then main()'s except clauses run
LeaveServeLoop(exc) ==
    LET e == main_except(out, ExcClass(exc), 0)
    IN  /\ portHolder' = "none"
        /\ out' = e.out
        /\ exitCode' = e.exit
        /\ interrupted' = (exc = "KeyboardInterrupt")
        /\ pc' = "done"

\* an exception raised while the handler works on the accepted connection
\* (the client may not have sent anything yet); shutdown_request closes the
\* connection in either case
handler_raises(exc) ==
    /\ pc = "handling"
    /\ conn' = [conn EXCEPT ![cur] = "closed"]
    /\ cur' = 0
    /\ IF Propagates(exc)
       THEN /\ LeaveServeLoop(exc)
            /\ timeWait' = TRUE
            /\ failed' = (failed \/ exc # "KeyboardInterrupt")
            /\ UNCHANGED last
       ELSE /\ last' = [n |-> last.n + 1, req |-> NoRequest, responded |-> FALSE,
                        resp |-> NewHandler(""), exc |-> exc, afterFailure |-> failed]
            /\ failed' = TRUE
            /\ pc' = "serving"
            /\ UNCHANGED <<portHolder, out, exitCode, interrupted, timeWait>>
    /\ UNCHANGED <<platform, cwd, chdirCount, fs, sent, startupFailure, bindErrno,
                   boundOnce, successor>>

\* KeyboardInterrupt while serve_forever waits in select
interrupt_idle ==
    /\ pc = "serving"
    /\ LeaveServeLoop("KeyboardInterrupt")
    /\ UNCHANGED <<platform, cwd, chdirCount, fs, timeWait, conn, sent, cur, last,
                   failed, startupFailure, bindErrno, boundOnce, successor>>

\* ------------------------------------------------------------- environment
\* the TIME_WAIT period of the closed connections ends
time_wait_expires ==
    /\ timeWait
    /\ timeWait' = FALSE
    /\ UNCHANGED <<platform, pc, cwd, chdirCount, fs, portHolder, out, exitCode, conn,
                   sent, cur, last, failed, interrupted, startupFailure, bindErrno,
                   boundOnce, successor>>

\* the other process that held the port ends
other_exits ==
    /\ portHolder = "other"
    /\ successor = "none"
    /\ portHolder' = "none"
    /\ UNCHANGED <<platform, pc, cwd, chdirCount, fs, timeWait, out, exitCode, conn,
                   sent, cur, last, failed, interrupted, startupFailure, bindErrno,
                   boundOnce, successor>>

\* after the process has exited, a new instance of the script is started and
\* binds the port the same way
new_instance ==
    /\ pc = "done"
    /\ successor = "none"
    /\ LET errno == server_bind(platform, portHolder, timeWait, 0)
       IN  /\ successor' = IF errno = 0 THEN "bound" ELSE "failed"
           /\ portHolder' = IF errno = 0 THEN "other" ELSE portHolder
    /\ UNCHANGED <<platform, pc, cwd, chdirCount, fs, timeWait, out, exitCode, conn,
                   sent, cur, last, failed, interrupted, startupFailure, bindErrno,
                   boundOnce>>

Next ==
    \/ main_chdir
    \/ main_banner
    \/ main_bind
    \/ \E c \in Conns : client_connect(c)
    \/ \E c \in Conns : client_send(c)
    \/ \E c \in Conns : get_request(c)
    \/ handle_request
    \/ \E exc \in HandlerExceptions : handler_raises(exc)
    \/ interrupt_idle
    \/ time_wait_expires
    \/ other_exits
    \/ new_instance

Spec == Init /\ [][Next]_vars

\* ------------------------------------------------------------ properties
HasHeader(resp, kv) == \E i \in DOMAIN resp.headers : resp.headers[i] = kv

HasCORS(resp) ==
    /\ HasHeader(resp, <<"Access-Control-Allow-Origin", "*">>)
    /\ HasHeader(resp, <<"Access-Control-Allow-Methods", "GET, POST, OPTIONS">>)
    /\ HasHeader(resp, <<"Access-Control-Allow-Headers", "Content-Type">>)

\* the request line has the three words of an HTTP/1.x request
IsHttp1(req) == Len(req.words) = 3 /\ req.words[3] \in {"HTTP/1.0", "HTTP/1.1"}

IsHttp1Method(req, m) == IsHttp1(req) /\ req.words[1] = m

Printed(line) == \E i \in DOMAIN out : out[i] = line

C2_StartupFailureExitsNonZero ==
    pc = "done" =>
        /\ startupFailure # "none" => exitCode # 0
        /\ exitCode = 0 => interrupted

\* C3: when the bind fails with the platform's address-already-in-use error,
\* main() prints the port-in-use message with the remediation hint, not the
\* generic server-error message, and ends without a bound listening socket.
C3_PortInUseReported ==
    pc = "done" /\ startupFailure = "bind" /\ bindErrno = EADDRINUSE(platform) =>
        /\ Printed("port is already in use")
        /\ Printed("try lsof kill")
        /\ ~Printed("server error")
        /\ portHolder # "self"

\* C4: a KeyboardInterrupt in the serve loop, idle or mid-request, ends the
\* process with the stopped message and exit code 0, releases the listening
\* socket, and a new instance started afterwards binds the port.
C4_InterruptReleasesPort ==
    interrupted =>
        /\ pc = "done"
        /\ Printed("server stopped")
        /\ exitCode = 0
        /\ portHolder # "self"
        /\ successor # "failed"

\* C5: a failed request (not-found answer, or an exception raised in the
\* handler) never takes the server out of the listening state, and a later
\* GET of an existing file is answered 200.
C5_FailedRequestKeepsServing ==
    /\ failed /\ ~interrupted =>
          /\ pc \in {"serving", "handling"}
          /\ exitCode = RUNNING
          /\ portHolder = "self"
    /\ \A p \in Paths :
          /\ last.responded /\ last.afterFailure
          /\ last.req = Request(<<"GET", p, "HTTP/1.1">>, FALSE)
          /\ InitialFs[ScriptDir][<<p.base, p.ext>>].kind = "file"
          /\ InitialFs[ScriptDir][<<p.base, p.ext>>].readable
          => last.resp.status = 200

C5_Witness ==
    /\ last.responded /\ last.afterFailure
    /\ last.req = Request(<<"GET", Path("a", "html", FALSE), "HTTP/1.1">>, FALSE)
    /\ last.resp.status = 200
    /\ pc = "serving"

\* C6: an OPTIONS request to any path is answered with status 200, an empty
\* body and the three CORS headers, the same answer for every path.
C6_OptionsAnswer ==
    last.responded /\ IsHttp1Method(last.req, "OPTIONS") =>
        /\ last.resp.status = 200
        /\ last.resp.body = EmptyBody
        /\ HasCORS(last.resp)
        /\ last.resp.headers =
              << <<"Server", "SimpleHTTP">>, <<"Date", "now">> >> \o CORSHeaders

C6_Witness ==
    /\ last.responded
    /\ last.req = Request(<<"OPTIONS", Path("missing", "html", FALSE), "HTTP/1.1">>, FALSE)
    /\ last.resp.status = 200
    /\ last.resp.body = EmptyBody

ExpectedType(ext) ==
    IF ext = "html" THEN "text/html"
    ELSE IF ext = "png" THEN "image/png"
    ELSE "application/octet-stream"

GetAnswer(req, resp, p) ==
    LET e == InitialFs[ScriptDir][<<p.base, p.ext>>]
    IN  /\ e.kind = "file" /\ e.readable /\ ~p.slash =>
              /\ resp.status = 200
              /\ resp.body = Body("file", e.bytes)
              /\ HasHeader(resp, <<"Content-type", ExpectedType(p.ext)>>)
        /\ e.kind = "none" => resp.status = 404

\* C7 (as stated): a GET of an existing readable regular file returns 200, the
\* file's bytes and the Content-Type of its extension; a GET of a path that
\* maps to no file returns a not-found status.
C7_GetServesFile ==
    last.responded /\ Len(last.req.words) >= 2 /\ last.req.words[1] = "GET"
    /\ parse_request(last.req.words).ok
        => GetAnswer(last.req, last.resp, last.req.words[2])

\* C7 (amended): the same for an HTTP/1.x GET that carries no
\* If-Modified-Since header the file's modification time satisfies.
C7_UnconditionalGetServesFile ==
    last.responded /\ IsHttp1Method(last.req, "GET") /\ ~last.req.ims
        => GetAnswer(last.req, last.resp, last.req.words[2])

C7_Witness ==
    /\ last.responded
    /\ last.req = Request(<<"GET", Path("tex", "png", FALSE), "HTTP/1.1">>, FALSE)
    /\ last.resp.status = 200
    /\ last.resp.body = Body("file", <<3>>)
    /\ HasHeader(last.resp, <<"Content-type", "image/png">>)

\* C8 (as stated): while one connection's request is being handled, a request
\* that arrived on another connection is still accepted rather than waiting.
C8_OtherConnectionAccepted ==
    \A c, d \in Conns :
        conn[c] = "accepted" /\ conn[d] = "backlog" /\ sent[d] => CanAccept(d)

\* C8 (amended): requests are handled one connection at a time; while a
\* connection is being handled it is the only accepted one, and a connection
\* that arrives meanwhile stays queued until the first is finished.
C8_OneConnectionAtATime ==
    \A c \in Conns : conn[c] = "accepted" => pc = "handling" /\ cur = c

C8_Witness ==
    \E c, d \in Conns :
        /\ conn[c] = "accepted" /\ ~sent[c]
        /\ conn[d] = "backlog" /\ sent[d]
        /\ ~CanAccept(d)

\* C9: the working directory is set exactly once, before the socket is bound,
\* to the script's directory; no request changes it afterwards, and handling
\* a request leaves every file as it was.
C9_CwdSetOnceFilesUntouched ==
    /\ chdirCount <= 1
    /\ pc = "chdir" => chdirCount = 0 /\ ~boundOnce
    /\ pc # "chdir" /\ startupFailure # "chdir" => chdirCount = 1 /\ cwd = ScriptDir
    /\ boundOnce => chdirCount = 1 /\ cwd = ScriptDir
    /\ fs = InitialFs

C9_Witness ==
    /\ last.n = MaxConn
    /\ last.responded
    /\ boundOnce
    /\ cwd = ScriptDir
    /\ chdirCount = 1
    /\ fs = InitialFs

\* C10: the banner is printed only after the socket has been bound, so a run
\* whose bind fails never prints it.
C10_BannerAfterBind ==
    Printed("starting on port") => boundOnce

====
